---------------------------- MODULE Spec2Model ----------------------------
(***************************************************************************)
(* The procfs "critmon" node of fs/procfs/fs_procfscritmon.c: open, close, *)
(* read, dup over a per-CPU text document rendered from the get-and-reset  *)
(* maxima g_premp_max[] and g_crit_max[].                                  *)
(*                                                                         *)
(* Bytes are one-character strings; a text is a sequence of bytes.         *)
(***************************************************************************)
EXTENDS Integers, Sequences, FiniteSets, TLC

(***************************************************************************)
(* Program constants and the bounds of the model.                          *)
(***************************************************************************)
CRITMON_LINELEN == 64

NCPUS == 2

O_RDONLY == 1

O_WRONLY == 2

EACCES == 13

ENOMEM == 12

OK == 0

NULL == 0

\* Counts per second of the performance counter that perf_convert divides by.
PerfFreq == 100000000

NSEC_PER_SEC == 1000000000

MaxFiles == 2

MaxInstr == 2

SmallBuf == 10

BigBuf == 64

NUL == "NUL"

Cpus == 0 .. (NCPUS - 1)

Fds == 0 .. (MaxFiles - 1)

Addrs == 1 .. MaxFiles

\* Counter values the instrumentation stores: 1.234567890 s and, with two
\* digits of seconds, 12.345678900 s.
Elevated == {123456789, 1234567890}

Values == {0} \cup Elevated

\* A buffer that cuts the fields, one that holds several, one that holds the document.
BufLens == {SmallBuf, 3 * SmallBuf, BigBuf}

\* The sizes of a single call: one byte as well.
CallBufLens == {1} \cup BufLens

\* The sizes the runs with several handles read with.
CoarseBufLens == {3 * SmallBuf, BigBuf}

OFlags == {0, O_RDONLY, O_WRONLY, O_RDONLY + O_WRONLY}

Min(a, b) == IF a < b THEN a ELSE b


VARIABLES
  includePreemptMax,      \* CONFIG_SCHED_CRITMONITOR_MAXTIME_PREEMPTION >= 0
  includeCritSectionMax,  \* CONFIG_SCHED_CRITMONITOR_MAXTIME_CSECTION >= 0
  stub,                   \* StatSource replaced by a stub that ignores the reset
  g_premp_max,            \* [Cpus -> counter]
  g_crit_max,             \* [Cpus -> counter]
  heap,                   \* [Addrs -> struct critmon_file_s, or Free]
  file,                   \* [Fds -> struct file: f_priv, f_pos]
  out,                    \* [Fds -> bytes the caller received since the handle was created]
  mark,                   \* [Fds -> f_pos of the handle when it was created]
  peer,                   \* [Fds -> the live handle it was duplicated from, or -1]
  quiet,                  \* [Fds -> no store and no other handle's read since the open]
  chunks,                 \* [Fds -> reads that added bytes to out[fd]]
  pending,                \* [Fds -> the field the last read of the handle stopped inside]
  reports,                \* [field -> renderings that showed the stored value since the store]
  ninstr,                 \* instrumentation stores so far
  last,                   \* the last operation: its arguments and what it returned
  rd,                     \* a critmon_read in progress: its position and locals
  hist,                   \* the values stored by the instrumentation, and those rendered
  statbuf                 \* the caller's struct stat

vars == <<includePreemptMax, includeCritSectionMax, stub, g_premp_max, g_crit_max,
          heap, file, out, mark, peer, quiet, chunks,
          pending, reports, ninstr, last, rd, hist, statbuf>>

config == <<includePreemptMax, includeCritSectionMax, stub>>

observed == <<out, mark, peer, quiet, chunks, pending>>

Kinds == {"premp", "crit"}

Free == [free |-> TRUE]

NoPending == [cpu |-> -1]

race == <<rd, hist>>

\* No critmon_read is in progress.
Idle == [pc |-> "idle", fd |-> -1, cpu |-> 0, kind |-> "none", arg |-> 0,
         loaded |-> 0, st |-> <<>>]

NoHist == [stores |-> {}, shown |-> {}]

(***************************************************************************)
(* struct stat: the mode and the attributes critmon_stat does not set.     *)
(***************************************************************************)
S_IFREG == 32768

S_IFDIR == 16384

S_IRUSR == 256

S_IRGRP == 32

S_IROTH == 4

\* The permission bits: rwx of owner, group and other.
ModeBits == {256, 128, 64, 32, 16, 8, 4, 2, 1}

ZeroStat == [st_mode |-> 0, st_size |-> 0, st_blksize |-> 0, st_blocks |-> 0,
             st_mtime |-> 0]

\* A struct stat the caller has not initialised, or used for a directory before.
StaleStat == [st_mode |-> S_IFDIR + 511, st_size |-> 7, st_blksize |-> 512,
              st_blocks |-> 1, st_mtime |-> 3]

StatBufs == {ZeroStat, StaleStat}

RelPaths == {"critmon", "critmon/0", ""}

(***************************************************************************)
(* Formatting: what the printf conversions %d, %lu and %09lu produce.      *)
(***************************************************************************)
DigitChars == <<"0", "1", "2", "3", "4", "5", "6", "7", "8", "9">>

IsDigit(ch) == \E i \in 1 .. 10 : DigitChars[i] = ch

RECURSIVE Dec(_)
Dec(n) == IF n < 10 THEN <<DigitChars[n + 1]>>
          ELSE Dec(n \div 10) \o <<DigitChars[(n % 10) + 1]>>

RECURSIVE PadZero(_, _)
PadZero(s, w) == IF Len(s) >= w THEN s ELSE PadZero(<<"0">> \o s, w)

FmtCpu(cpu) == Dec(cpu)

\* Faulty variant: "%lu" for "%09lu".
FmtDurationNoPad(ts) == <<",">> \o Dec(ts.tv_sec) \o <<".">> \o Dec(ts.tv_nsec)

FmtDuration(ts) == <<",">> \o Dec(ts.tv_sec) \o <<".">> \o PadZero(Dec(ts.tv_nsec), 9)

FmtNewline == <<"\n">>

ZeroTime == [tv_sec |-> 0, tv_nsec |-> 0]

perf_convert(elapsed) ==
  [tv_sec  |-> elapsed \div PerfFreq,
   tv_nsec |-> (elapsed % PerfFreq) * (NSEC_PER_SEC \div PerfFreq)]

\* vsnprintf into buf[0 .. size-1]: the text cut to size-1 bytes, then a NUL;
\* the bytes after the NUL keep what they held.
procfs_snprintf(buf, size, text) ==
  LET n == Min(Len(text), size - 1)
  IN  [line |-> [i \in 1 .. size |->
                   IF i <= n THEN text[i] ELSE IF i = n + 1 THEN NUL ELSE buf[i]],
       n    |-> n]

\* Copy the part of src[0 .. srclen-1] at or after *offset that fits in destlen.
procfs_memcpy(src, srclen, destlen, offset) ==
  IF srclen < offset
  THEN [bytes |-> <<>>, offset |-> offset - srclen]
  ELSE LET copysize == Min(srclen - offset, destlen)
       IN  [bytes |-> SubSeq(src, offset + 1, offset + copysize), offset |-> 0]

(***************************************************************************)
(* critmon_read_cpu works on a record st:                                  *)
(*   line     attr->line                                                   *)
(*   bytes    what the call has put in the caller's buffer so far          *)
(*   buflen   room left in the caller's buffer                             *)
(*   offset   *offset                                                      *)
(*   premp, crit   g_premp_max, g_crit_max                                 *)
(*   taken    the duration fields rendered: [cpu, kind, text, had]         *)
(***************************************************************************)
\* Faulty variant: the copy is taken from attr->line as it was before the
\* field was rendered into it.
EmitFieldStale(st, text) ==
  LET p == procfs_snprintf(st.line, CRITMON_LINELEN, text)
      c == procfs_memcpy(st.line, p.n, st.buflen, st.offset)
  IN  [st EXCEPT !.line = p.line,
                 !.bytes = @ \o c.bytes,
                 !.buflen = @ - Len(c.bytes),
                 !.offset = c.offset]

\* Faulty variant: buflen -= copysize left out.
EmitFieldNoShrink(st, text) ==
  LET p == procfs_snprintf(st.line, CRITMON_LINELEN, text)
      c == procfs_memcpy(p.line, p.n, st.buflen, st.offset)
  IN  [st EXCEPT !.line = p.line,
                 !.bytes = @ \o c.bytes,
                 !.offset = c.offset]

\* procfs_snprintf into attr->line, procfs_memcpy to the buffer, and the
\* three updates that follow each copy.
EmitField(st, text) ==
  LET p == procfs_snprintf(st.line, CRITMON_LINELEN, text)
      c == procfs_memcpy(p.line, p.n, st.buflen, st.offset)
  IN  [st EXCEPT !.line = p.line,
                 !.bytes = @ \o c.bytes,
                 !.buflen = @ - Len(c.bytes),
                 !.offset = c.offset]

\* Faulty variant: the maximum is not reset.
ResetMaxForgot(v) == v

\* What the stored maximum is after the field was rendered.
ResetMax(v) == IF stub THEN v ELSE 0

MaxTime(v) == IF v > 0 THEN perf_convert(v) ELSE ZeroTime

\* The record of one rendered duration field: the value it found stored, its
\* text, how many bytes of the text lay before the offset, the bytes copied.
Rendering(cpu, kind, had, text, before, after) ==
  [cpu |-> cpu, kind |-> kind, had |-> had, text |-> text,
   skip |-> Min(before.offset, Len(text)),
   copied |-> SubSeq(after.bytes, Len(before.bytes) + 1, Len(after.bytes))]

\* Faulty variant: g_premp_max[cpu] = 0 left out.
PreemptFieldNoReset(st, cpu) ==
  LET text == FmtDuration(MaxTime(st.premp[cpu]))
      s    == EmitField(st, text)
  IN  [s EXCEPT !.taken = @ \cup {Rendering(cpu, "premp", st.premp[cpu], text, st, s)}]

PreemptField(st, cpu) ==
  LET text == FmtDuration(MaxTime(st.premp[cpu]))
      s    == EmitField([st EXCEPT !.premp[cpu] = ResetMax(@)], text)
  IN  [s EXCEPT !.taken = @ \cup {Rendering(cpu, "premp", st.premp[cpu], text, st, s)}]

\* Faulty variant: g_crit_max[cpu] is reset only when a byte of the field is copied.
CritFieldLazy(st, cpu) ==
  LET text == FmtDuration(MaxTime(st.crit[cpu]))
      s    == EmitField(st, text)
      t    == IF s.bytes = st.bytes THEN s ELSE [s EXCEPT !.crit[cpu] = ResetMax(@)]
  IN  [t EXCEPT !.taken = @ \cup {Rendering(cpu, "crit", st.crit[cpu], text, st, s)}]

CritField(st, cpu) ==
  LET text == FmtDuration(MaxTime(st.crit[cpu]))
      s    == EmitField([st EXCEPT !.crit[cpu] = ResetMax(@)], text)
  IN  [s EXCEPT !.taken = @ \cup {Rendering(cpu, "crit", st.crit[cpu], text, st, s)}]

\* Faulty variant: no return when the buffer is full after the pre-emption field.
critmon_read_cpu_on(st, cpu) ==
  LET s1 == EmitField(st, FmtCpu(cpu))
  IN  IF s1.buflen <= 0 THEN s1
      ELSE LET s2 == IF includePreemptMax THEN PreemptField(s1, cpu) ELSE s1
               s3 == IF includeCritSectionMax THEN CritField(s2, cpu) ELSE s2
           IN  IF includeCritSectionMax /\ s3.buflen <= 0 THEN s3
               ELSE EmitField(s3, FmtNewline)

critmon_read_cpu(st, cpu) ==
  LET s1 == EmitField(st, FmtCpu(cpu))
  IN  IF s1.buflen <= 0 THEN s1
      ELSE LET s2 == IF includePreemptMax THEN PreemptField(s1, cpu) ELSE s1
           IN  IF includePreemptMax /\ s2.buflen <= 0 THEN s2
               ELSE LET s3 == IF includeCritSectionMax THEN CritField(s2, cpu) ELSE s2
                    IN  IF includeCritSectionMax /\ s3.buflen <= 0 THEN s3
                        ELSE EmitField(s3, FmtNewline)

\* Faulty variant: every CPU is given the whole buffer length, not buflen - ret.
RECURSIVE ReadLoopFullRoom(_, _, _, _)
ReadLoopFullRoom(st, cpu, ret, buflen) ==
  IF cpu >= NCPUS THEN st
  ELSE LET s      == critmon_read_cpu([st EXCEPT !.buflen = buflen], cpu)
           nbytes == Len(s.bytes) - Len(st.bytes)
       IN  ReadLoopFullRoom(s, cpu + 1, ret + nbytes, buflen)

\* The for loop of critmon_read from index cpu on; ret bytes are in the buffer.
RECURSIVE ReadLoop(_, _, _, _)
ReadLoop(st, cpu, ret, buflen) ==
  IF cpu >= NCPUS THEN st
  ELSE LET s      == critmon_read_cpu([st EXCEPT !.buflen = buflen - ret], cpu)
           nbytes == Len(s.bytes) - Len(st.bytes)
       IN  IF ret + nbytes > buflen THEN s
           ELSE ReadLoop(s, cpu + 1, ret + nbytes, buflen)

\* Faulty variant: filep->f_pos += ret left out.
AdvancePosStuck(pos, ret) == pos

\* Faulty variant: f_pos = ret for f_pos += ret.
AdvancePosSet(pos, ret) == IF ret > 0 THEN ret ELSE pos

\* if (ret > 0) filep->f_pos += ret
AdvancePos(pos, ret) == IF ret > 0 THEN pos + ret ELSE pos

\* critmon_read on a handle with scratch line `line` at file position pos.
critmon_read(line, pos, buflen, premp, crit) ==
  LET s == ReadLoop([line |-> line, bytes |-> <<>>, buflen |-> buflen,
                     offset |-> pos, premp |-> premp, crit |-> crit,
                     taken |-> {}], 0, 0, buflen)
      ret == Len(s.bytes)
  IN  [ret |-> ret, bytes |-> s.bytes, line |-> s.line,
       f_pos |-> AdvancePos(pos, ret),
       premp |-> s.premp, crit |-> s.crit, taken |-> s.taken]


(***************************************************************************)
(* The heap and the file table.                                            *)
(***************************************************************************)
ZeroLine == [i \in 1 .. CRITMON_LINELEN |-> NUL]

\* fs_heap_zalloc(sizeof(struct critmon_file_s))
ZeroAttr == [free |-> FALSE, linesize |-> 0, line |-> ZeroLine]

IsOpen(fd) == file[fd].f_priv # NULL

FreeAddrs == {a \in Addrs : heap[a] = Free}

\* The address the allocator hands out.
AllocAddr == CHOOSE a \in FreeAddrs : \A b \in FreeAddrs : a <= b

\* The file structure a new descriptor gets: the lowest one not in use.
LowestFree(fd) == ~IsOpen(fd) /\ \A f \in Fds : f < fd => IsOpen(f)

HasBit(flags, bit) == (flags \div bit) % 2 = 1

NoOp == [op |-> "none", fd |-> -1, arg |-> 0, ret |-> 0, pos |-> 0,
         bytes |-> <<>>, taken |-> {}, resumed |-> NoPending, alloc |-> TRUE]

Returned(op, fd, arg, ret) == [NoOp EXCEPT !.op = op, !.fd = fd, !.arg = arg, !.ret = ret]

ZeroText == FmtDuration(ZeroTime)

\* The field a read stopped inside after resetting its nonzero maximum.
Partial(taken) == {e \in taken : e.had > 0 /\ e.skip + Len(e.copied) < Len(e.text)}

PendingOf(taken) ==
  IF Partial(taken) = {} THEN NoPending
  ELSE LET e == CHOOSE x \in Partial(taken) : TRUE
       IN  [cpu |-> e.cpu, kind |-> e.kind, text |-> e.text,
            sent |-> e.skip + Len(e.copied)]

Shown(taken, cpu, kind) ==
  Cardinality({e \in taken : e.cpu = cpu /\ e.kind = kind /\ e.text # ZeroText})

\* Faulty variant: the test of O_RDONLY left out.
OpenDeniedWriteOnly(oflags) == HasBit(oflags, O_WRONLY)

\* if ((oflags & O_WRONLY) != 0 || (oflags & O_RDONLY) == 0)
OpenDenied(oflags) == HasBit(oflags, O_WRONLY) \/ ~HasBit(oflags, O_RDONLY)

\* Faulty variant: the result of the allocation is not tested.
AllocFailedUntested(allocOK) == FALSE

\* if (attr == NULL), if (newattr == NULL): allocOK is what the allocator did.
AllocFailed(allocOK) == ~allocOK

\* What fs_heap_malloc may hand out: memory that was used before.
StaleAttr == [free |-> FALSE, linesize |-> 2,
              line |-> [i \in 1 .. CRITMON_LINELEN |-> IF i <= 2 THEN "9" ELSE NUL]]

\* Faulty variant: fs_heap_malloc for fs_heap_zalloc.
critmon_open_malloc(hp, addr) == [hp EXCEPT ![addr] = StaleAttr]

\* attr = fs_heap_zalloc(...); filep->f_priv = attr
critmon_open(hp, addr) == [hp EXCEPT ![addr] = ZeroAttr]

\* memcpy(newattr, oldattr, sizeof(struct critmon_file_s))
critmon_dup(hp, oldaddr, newaddr) == [hp EXCEPT ![newaddr] = hp[oldaddr]]

\* Faulty variant: the new file is given the old attributes, not the copy.
DupPrivShared(oldaddr, newaddr) == oldaddr

\* newp->f_priv = (FAR void *)newattr
DupPriv(oldaddr, newaddr) == newaddr

\* Faulty variant: fs_heap_free(attr) left out.
critmon_close_leak(hp, addr) == hp

\* fs_heap_free(attr)
critmon_close(hp, addr) == [hp EXCEPT ![addr] = Free]

\* Faulty variant: memset(buf, 0, sizeof(struct stat)) left out.
critmon_stat_nomemset(relpath, buf) ==
  [buf EXCEPT !.st_mode = S_IFREG + S_IROTH + S_IRGRP + S_IRUSR]

\* memset(buf, 0, sizeof(struct stat)); buf->st_mode = S_IFREG | S_IROTH | S_IRGRP | S_IRUSR
critmon_stat(relpath, buf) ==
  [ZeroStat EXCEPT !.st_mode = S_IFREG + S_IROTH + S_IRGRP + S_IRUSR]

(***************************************************************************)
(* Initial states.                                                         *)
(***************************************************************************)
InitHandles ==
  /\ heap = [a \in Addrs |-> Free]
  /\ file = [fd \in Fds |-> [f_priv |-> NULL, f_pos |-> 0]]
  /\ out = [fd \in Fds |-> <<>>]
  /\ mark = [fd \in Fds |-> 0]
  /\ peer = [fd \in Fds |-> -1]
  /\ quiet = [fd \in Fds |-> FALSE]
  /\ chunks = [fd \in Fds |-> 0]
  /\ pending = [fd \in Fds |-> NoPending]
  /\ reports = [c \in Cpus |-> [k \in Kinds |-> 0]]
  /\ ninstr = 0
  /\ last = NoOp
  /\ rd = Idle
  /\ hist = NoHist
  /\ statbuf = StaleStat

\* The columns the build leaves out hold no maximum.
Enabled(premp, crit) ==
  /\ includePreemptMax \/ premp = [c \in Cpus |-> 0]
  /\ includeCritSectionMax \/ crit = [c \in Cpus |-> 0]

\* The maxima the runs with several handles start from: in every column the
\* build has, two digits of seconds on one CPU and one digit on the others.
StoredPremp == [c \in Cpus |-> IF ~includePreemptMax THEN 0
                               ELSE IF c = 0 THEN 1234567890 ELSE 123456789]

StoredCrit == [c \in Cpus |-> IF ~includeCritSectionMax THEN 0
                              ELSE IF c = 0 THEN 123456789 ELSE 1234567890]

\* Several handles over maxima the instrumentation has stored and then leaves
\* alone; under the stub a reset does not change them.
Init ==
  /\ includePreemptMax \in BOOLEAN
  /\ includeCritSectionMax \in BOOLEAN
  /\ stub \in BOOLEAN
  /\ g_premp_max = StoredPremp
  /\ g_crit_max = StoredCrit
  /\ InitHandles

\* One handle read in sequence: after boot no maximum is recorded yet and the
\* instrumentation stores them; the stub holds every choice of fixed values.
InitSeq ==
  /\ includePreemptMax \in BOOLEAN
  /\ includeCritSectionMax \in BOOLEAN
  /\ stub \in BOOLEAN
  /\ g_premp_max \in [Cpus -> IF stub THEN Values ELSE {0}]
  /\ g_crit_max \in [Cpus -> IF stub THEN Values ELSE {0}]
  /\ Enabled(g_premp_max, g_crit_max)
  /\ InitHandles

\* The longest document: every duration with two digits of seconds.
MaxDocLen == NCPUS * (2 + 2 * Len(FmtDuration(perf_convert(1234567890))))

\* A single call: an open handle at any offset a sequence of reads can leave
\* it at, over any stored maxima.
InitCall ==
  /\ includePreemptMax \in BOOLEAN
  /\ includeCritSectionMax \in BOOLEAN
  /\ stub \in BOOLEAN
  /\ g_premp_max \in [Cpus -> Values]
  /\ g_crit_max \in [Cpus -> Values]
  /\ Enabled(g_premp_max, g_crit_max)
  /\ heap = [a \in Addrs |-> IF a = 1 THEN ZeroAttr ELSE Free]
  /\ \E pos \in 0 .. MaxDocLen :
       file = [fd \in Fds |-> IF fd = 0 THEN [f_priv |-> 1, f_pos |-> pos]
                                        ELSE [f_priv |-> NULL, f_pos |-> 0]]
  /\ out = [fd \in Fds |-> <<>>]
  /\ mark = [fd \in Fds |-> 0]
  /\ peer = [fd \in Fds |-> -1]
  /\ quiet = [fd \in Fds |-> FALSE]
  /\ chunks = [fd \in Fds |-> 0]
  /\ pending = [fd \in Fds |-> NoPending]
  /\ reports = [c \in Cpus |-> [k \in Kinds |-> 0]]
  /\ ninstr = 0
  /\ last = NoOp
  /\ rd = Idle
  /\ hist = NoHist
  /\ statbuf = StaleStat

(***************************************************************************)
(* Operations.                                                             *)
(***************************************************************************)
Open(fd, oflags, allocOK) ==
  /\ LowestFree(fd)
  /\ \/ /\ OpenDenied(oflags)
        /\ last' = Returned("open", fd, oflags, -EACCES)
        /\ UNCHANGED <<heap, file, observed>>
     \/ /\ ~OpenDenied(oflags)
        /\ AllocFailed(allocOK)
        /\ last' = [Returned("open", fd, oflags, -ENOMEM) EXCEPT !.alloc = allocOK]
        /\ UNCHANGED <<heap, file, observed>>
     \/ /\ ~OpenDenied(oflags)
        /\ ~AllocFailed(allocOK)
        /\ heap' = critmon_open(heap, AllocAddr)
        /\ file' = [file EXCEPT ![fd] = [f_priv |-> AllocAddr, f_pos |-> 0]]
        /\ out' = [out EXCEPT ![fd] = <<>>]
        /\ mark' = [mark EXCEPT ![fd] = 0]
        /\ peer' = [peer EXCEPT ![fd] = -1]
        /\ quiet' = [quiet EXCEPT ![fd] = ~stub]
        /\ chunks' = [chunks EXCEPT ![fd] = 0]
        /\ pending' = [pending EXCEPT ![fd] = NoPending]
        /\ last' = [Returned("open", fd, oflags, OK) EXCEPT !.alloc = allocOK]
  /\ UNCHANGED <<statbuf, config, g_premp_max, g_crit_max, reports, ninstr, race>>

Close(fd) ==
  /\ IsOpen(fd)
  /\ heap' = critmon_close(heap, file[fd].f_priv)
  /\ file' = [file EXCEPT ![fd] = [f_priv |-> NULL, f_pos |-> 0]]
  /\ out' = [out EXCEPT ![fd] = <<>>]
  /\ mark' = [mark EXCEPT ![fd] = 0]
  /\ peer' = [f \in Fds |-> IF f = fd \/ peer[f] = fd THEN -1 ELSE peer[f]]
  /\ quiet' = [quiet EXCEPT ![fd] = FALSE]
  /\ chunks' = [chunks EXCEPT ![fd] = 0]
  /\ pending' = [pending EXCEPT ![fd] = NoPending]
  /\ last' = Returned("close", fd, 0, OK)
  /\ UNCHANGED <<statbuf, config, g_premp_max, g_crit_max, reports, ninstr, race>>

Read(fd, buflen) ==
  /\ IsOpen(fd)
  /\ \E r \in {critmon_read(heap[file[fd].f_priv].line, file[fd].f_pos, buflen,
                            g_premp_max, g_crit_max)} :
       /\ heap' = [heap EXCEPT ![file[fd].f_priv].line = r.line]
       /\ file' = [file EXCEPT ![fd].f_pos = r.f_pos]
       /\ g_premp_max' = r.premp
       /\ g_crit_max' = r.crit
       /\ out' = [f \in Fds |-> IF f = fd /\ (stub \/ quiet[f]) THEN out[f] \o r.bytes
                                ELSE IF stub THEN out[f] ELSE <<>>]
       /\ chunks' = [f \in Fds |->
                       IF f = fd /\ (stub \/ quiet[f])
                       THEN chunks[f] + (IF r.ret > 0 THEN 1 ELSE 0)
                       ELSE IF stub THEN chunks[f] ELSE 0]
       /\ quiet' = [f \in Fds |-> f = fd /\ quiet[f]]
       /\ pending' = [pending EXCEPT ![fd] = IF stub THEN NoPending
                                              ELSE PendingOf(r.taken)]
       /\ reports' = [c \in Cpus |-> [k \in Kinds |->
                        IF stub THEN 0 ELSE Min(2, reports[c][k] + Shown(r.taken, c, k))]]
       /\ last' = [op |-> "read", fd |-> fd, arg |-> buflen, ret |-> r.ret,
                   pos |-> file[fd].f_pos, bytes |-> r.bytes, taken |-> r.taken,
                   resumed |-> pending[fd], alloc |-> TRUE]
  /\ UNCHANGED <<statbuf, config, mark, peer, ninstr, race>>

Dup(oldfd, newfd, allocOK) ==
  /\ IsOpen(oldfd)
  /\ LowestFree(newfd)
  /\ \/ /\ AllocFailed(allocOK)
        /\ last' = [Returned("dup", newfd, oldfd, -ENOMEM) EXCEPT !.alloc = allocOK]
        /\ UNCHANGED <<heap, file, observed>>
     \/ /\ ~AllocFailed(allocOK)
        /\ heap' = critmon_dup(heap, file[oldfd].f_priv, AllocAddr)
        /\ file' = [file EXCEPT ![newfd] =
                      [f_priv |-> DupPriv(file[oldfd].f_priv, AllocAddr),
                       f_pos  |-> file[oldfd].f_pos]]
        /\ out' = [out EXCEPT ![newfd] = <<>>]
        /\ mark' = [mark EXCEPT ![newfd] = IF stub THEN file[oldfd].f_pos ELSE 0]
        /\ peer' = [peer EXCEPT ![newfd] = IF stub THEN oldfd ELSE -1]
        /\ quiet' = [quiet EXCEPT ![newfd] = FALSE]
        /\ chunks' = [chunks EXCEPT ![newfd] = 0]
        /\ pending' = [pending EXCEPT ![newfd] = pending[oldfd]]
        /\ last' = [Returned("dup", newfd, oldfd, OK) EXCEPT !.alloc = allocOK]
  /\ UNCHANGED <<statbuf, config, g_premp_max, g_crit_max, reports, ninstr, race>>

\* The scheduler instrumentation records an elapsed time larger than the maximum.
Instrument(cpu, kind, elapsed) ==
  /\ ~stub
  /\ ninstr < MaxInstr
  /\ ninstr' = ninstr + 1
  /\ \/ /\ kind = "premp"
        /\ includePreemptMax
        /\ elapsed > g_premp_max[cpu]
        /\ g_premp_max' = [g_premp_max EXCEPT ![cpu] = elapsed]
        /\ UNCHANGED g_crit_max
     \/ /\ kind = "crit"
        /\ includeCritSectionMax
        /\ elapsed > g_crit_max[cpu]
        /\ g_crit_max' = [g_crit_max EXCEPT ![cpu] = elapsed]
        /\ UNCHANGED g_premp_max
  /\ quiet' = [f \in Fds |-> FALSE]
  /\ out' = [f \in Fds |-> <<>>]
  /\ chunks' = [f \in Fds |-> 0]
  /\ pending' = [f \in Fds |->
                   IF pending[f].cpu = cpu /\ pending[f].kind = kind
                   THEN NoPending ELSE pending[f]]
  /\ reports' = [reports EXCEPT ![cpu][kind] = 0]
  /\ last' = Returned("instrument", -1, cpu, OK)
  /\ UNCHANGED <<statbuf, config, heap, file, mark, peer, race>>

\* stat of a path under the node, into the caller's buffer buf.
Stat(relpath, buf) ==
  /\ statbuf' = critmon_stat(relpath, buf)
  /\ last' = [Returned("stat", -1, 0, OK) EXCEPT !.bytes = <<relpath>>]
  /\ UNCHANGED <<config, g_premp_max, g_crit_max, heap, file, observed, reports,
                 ninstr, race>>

Next ==
  \/ \E fd \in Fds, oflags \in OFlags, allocOK \in BOOLEAN : Open(fd, oflags, allocOK)
  \/ \E fd \in Fds : Close(fd)
  \/ \E fd \in Fds, buflen \in CoarseBufLens : Read(fd, buflen)
  \/ \E oldfd \in Fds, newfd \in Fds, allocOK \in BOOLEAN : Dup(oldfd, newfd, allocOK)

NextSeq ==
  \/ \E oflags \in OFlags, allocOK \in BOOLEAN : Open(0, oflags, allocOK)
  \/ Close(0)
  \/ \E buflen \in BufLens : Read(0, buflen)
  \/ \E cpu \in Cpus, kind \in Kinds, elapsed \in Elevated :
       Instrument(cpu, kind, elapsed)

\* One call of critmon_read on an open handle.
NextCall == \E buflen \in CallBufLens : last.op = "none" /\ Read(0, buflen)

\* Files are opened, duplicated and closed, and the node is stat'ed.
NextStat ==
  \/ \E fd \in Fds, oflags \in OFlags, allocOK \in BOOLEAN : Open(fd, oflags, allocOK)
  \/ \E fd \in Fds : Close(fd)
  \/ \E oldfd \in Fds, newfd \in Fds, allocOK \in BOOLEAN : Dup(oldfd, newfd, allocOK)
  \/ \E relpath \in RelPaths, buf \in StatBufs : Stat(relpath, buf)

Spec == Init /\ [][Next]_vars

SpecStat == Init /\ [][NextStat]_vars

SpecCall == InitCall /\ [][NextCall]_vars

SpecSeq == InitSeq /\ [][NextSeq]_vars


(***************************************************************************)
(* The document as the record grammar lays it out, for the properties.     *)
(***************************************************************************)
RecordFields(cpu, premp, crit) ==
  <<[cpu |-> cpu, kind |-> "id", text |-> Dec(cpu)]>>
  \o (IF includePreemptMax
      THEN <<[cpu |-> cpu, kind |-> "premp", text |-> FmtDuration(MaxTime(premp[cpu]))]>>
      ELSE <<>>)
  \o (IF includeCritSectionMax
      THEN <<[cpu |-> cpu, kind |-> "crit", text |-> FmtDuration(MaxTime(crit[cpu]))]>>
      ELSE <<>>)
  \o <<[cpu |-> cpu, kind |-> "nl", text |-> <<"\n">>]>>

RECURSIVE FieldsFrom(_, _, _)
FieldsFrom(cpu, premp, crit) ==
  IF cpu >= NCPUS THEN <<>>
  ELSE RecordFields(cpu, premp, crit) \o FieldsFrom(cpu + 1, premp, crit)

RECURSIVE Concat(_)
Concat(fields) == IF fields = <<>> THEN <<>> ELSE Head(fields).text \o Concat(Tail(fields))

Document(premp, crit) == Concat(FieldsFrom(0, premp, crit))

\* Fields 1 .. FieldAt(fields, p) hold the first p + 1 bytes of the document.
RECURSIVE FieldAt(_, _)
FieldAt(fields, p) ==
  IF fields = <<>> THEN 0
  ELSE IF p < Len(Head(fields).text) THEN 1
  ELSE 1 + FieldAt(Tail(fields), p - Len(Head(fields).text))

StoredMax(cpu, kind) == IF kind = "premp" THEN g_premp_max[cpu] ELSE g_crit_max[cpu]

\* What one critmon_read at offset 0 returns in a buffer that holds the document.
SingleRead == critmon_read(ZeroLine, 0, BigBuf, g_premp_max, g_crit_max).bytes

AtEof(fd) == last.op = "read" /\ last.fd = fd /\ last.ret = 0

(***************************************************************************)
(* C1. Chunking equivalence: with a stubbed StatSource whose values a      *)
(* reset does not change, the bytes of successive reads on one handle,     *)
(* from offset 0 until a read returns 0, concatenate to the bytes of one   *)
(* read at offset 0 into a buffer that holds the whole document.           *)
(***************************************************************************)
C1_ChunkingEquivalence == (stub /\ AtEof(0)) => out[0] = SingleRead

\* A document with a two-digit maximum was delivered in three or more chunks.
C1_Witness ==
  /\ stub /\ AtEof(0) /\ chunks[0] >= 3
  /\ \E c \in Cpus : g_premp_max[c] = 1234567890
  /\ out[0] = SingleRead


(***************************************************************************)
(* The record grammar:  cpuId ("," sec "." nsec{9})* "\n", one duration    *)
(* per enabled column.  The Match operators return the index after what    *)
(* they matched at index i, or 0.                                          *)
(***************************************************************************)
MatchLit(s, i, lit) ==
  IF i > 0 /\ i + Len(lit) - 1 <= Len(s) /\ SubSeq(s, i, i + Len(lit) - 1) = lit
  THEN i + Len(lit) ELSE 0

RECURSIVE SkipDigits(_, _)
SkipDigits(s, i) == IF i <= Len(s) /\ IsDigit(s[i]) THEN SkipDigits(s, i + 1) ELSE i

MatchDuration(s, i) ==
  LET a == MatchLit(s, i, <<",">>)
      b == IF a = 0 THEN 0 ELSE SkipDigits(s, a)
      c == IF b > a THEN MatchLit(s, b, <<".">>) ELSE 0
      d == IF c = 0 THEN 0 ELSE SkipDigits(s, c)
  IN  IF c > 0 /\ d = c + 9 THEN d ELSE 0

MatchRecord(s, i, cpu) ==
  LET a == MatchLit(s, i, Dec(cpu))
      b == IF includePreemptMax THEN MatchDuration(s, a) ELSE a
      c == IF includeCritSectionMax THEN MatchDuration(s, b) ELSE b
  IN  MatchLit(s, c, <<"\n">>)

RECURSIVE MatchRecords(_, _, _)
MatchRecords(s, i, cpu) ==
  IF cpu >= NCPUS THEN i ELSE MatchRecords(s, MatchRecord(s, i, cpu), cpu + 1)

\* Exactly NCPUS well-formed records and nothing else.
IsDocument(s) == MatchRecords(s, 1, 0) = Len(s) + 1

(***************************************************************************)
(* C2. With the real get-and-reset StatSource and no concurrent update,    *)
(* the bytes of successive reads on one handle until a read returns 0      *)
(* form exactly NCPUS well-formed records.                                 *)
(***************************************************************************)
C2_WellFormedRecords == (~stub /\ quiet[0] /\ AtEof(0)) => IsDocument(out[0])

(***************************************************************************)
(* C4. A read returns n with 0 <= n <= buflen and leaves the offset at     *)
(* the offset before the call plus n.                                      *)
(***************************************************************************)
C4_ReturnAndOffset ==
  last.op = "read" =>
    /\ 0 <= last.ret /\ last.ret <= last.arg
    /\ file[last.fd].f_pos = last.pos + last.ret

\* A read from a nonzero offset that returned fewer bytes than the buffer holds.
C4_Witness ==
  /\ last.op = "read" /\ last.pos > 0 /\ 0 < last.ret /\ last.ret < last.arg
  /\ file[last.fd].f_pos = last.pos + last.ret

(***************************************************************************)
(* C5. With fixed values and a document of length L, a read at offset o    *)
(* with a buffer of b >= 1 bytes returns min(b, L - o) bytes when o < L    *)
(* and 0 bytes when o >= L.                                                *)
(***************************************************************************)
C5_ReadLength ==
  (stub /\ last.op = "read") =>
    LET L == Len(Document(g_premp_max, g_crit_max))
    IN  last.ret = IF last.pos < L THEN Min(last.arg, L - last.pos) ELSE 0

\* A buffer filled from inside the document, leaving bytes for a later read.
C5_Witness ==
  /\ stub /\ last.op = "read" /\ last.pos > 0
  /\ last.ret = last.arg /\ last.arg > 1
  /\ last.pos + last.ret < Len(Document(g_premp_max, g_crit_max))


(***************************************************************************)
(* critmon_read statement by statement, with the instrumentation running   *)
(* on another CPU.  The test, the load and the reset of a maximum are      *)
(* three accesses to the counter; nothing in critmon_read_cpu excludes a   *)
(* store between them.                                                     *)
(***************************************************************************)
InitRace ==
  /\ includePreemptMax \in BOOLEAN
  /\ includeCritSectionMax \in BOOLEAN
  /\ includePreemptMax \/ includeCritSectionMax
  /\ stub = FALSE
  /\ g_premp_max = [c \in Cpus |-> 0]
  /\ g_crit_max = [c \in Cpus |-> 0]
  /\ heap = [a \in Addrs |-> IF a = 1 THEN ZeroAttr ELSE Free]
  /\ file = [fd \in Fds |-> IF fd = 0 THEN [f_priv |-> 1, f_pos |-> 0]
                                      ELSE [f_priv |-> NULL, f_pos |-> 0]]
  /\ out = [fd \in Fds |-> <<>>]
  /\ mark = [fd \in Fds |-> 0]
  /\ peer = [fd \in Fds |-> -1]
  /\ quiet = [fd \in Fds |-> FALSE]
  /\ chunks = [fd \in Fds |-> 0]
  /\ pending = [fd \in Fds |-> NoPending]
  /\ reports = [c \in Cpus |-> [k \in Kinds |-> 0]]
  /\ ninstr = 0
  /\ last = NoOp
  /\ rd = Idle
  /\ hist = NoHist
  /\ statbuf = StaleStat

\* The field critmon_read_cpu writes after `field` when the buffer has room.
FieldAfter(field) ==
  IF field = "cpuid" /\ includePreemptMax THEN "premp"
  ELSE IF field \in {"cpuid", "premp"} /\ includeCritSectionMax THEN "crit"
  ELSE "newline"

\* Where the read goes on after it wrote `field` and was left in state s:
\* critmon_read_cpu returns when the buffer is full or the record complete,
\* and the loop of critmon_read takes the next CPU.
Moved(r, s, field) ==
  IF s.buflen <= 0 \/ field = "newline"
  THEN IF Len(s.bytes) > r.arg \/ r.cpu + 1 >= NCPUS
       THEN [r EXCEPT !.st = s, !.pc = "return"]
       ELSE [r EXCEPT !.st = s, !.pc = "cpuid", !.cpu = @ + 1]
  ELSE IF FieldAfter(field) = "newline"
       THEN [r EXCEPT !.st = s, !.pc = "newline"]
       ELSE [r EXCEPT !.st = s, !.pc = "test", !.kind = FieldAfter(field)]

ReadEnter(fd, buflen) ==
  /\ rd.pc = "idle"
  /\ IsOpen(fd)
  /\ rd' = [pc |-> "cpuid", fd |-> fd, cpu |-> 0, kind |-> "none", arg |-> buflen,
            loaded |-> 0,
            st |-> [line |-> heap[file[fd].f_priv].line, bytes |-> <<>>,
                    buflen |-> buflen, offset |-> file[fd].f_pos]]
  /\ UNCHANGED <<statbuf, config, g_premp_max, g_crit_max, heap, file, observed, reports,
                 ninstr, last, hist>>

WriteCpuId ==
  /\ rd.pc = "cpuid"
  /\ \E s \in {EmitField([rd.st EXCEPT !.buflen = rd.arg - Len(rd.st.bytes)],
                          FmtCpu(rd.cpu))} :
       rd' = Moved(rd, s, "cpuid")
  /\ UNCHANGED <<statbuf, config, g_premp_max, g_crit_max, heap, file, observed, reports,
                 ninstr, last, hist>>

\* if (g_premp_max[cpu] > 0), if (g_crit_max[cpu] > 0)
TestMax ==
  /\ rd.pc = "test"
  /\ rd' = IF StoredMax(rd.cpu, rd.kind) > 0
           THEN [rd EXCEPT !.pc = "load"]
           ELSE [rd EXCEPT !.pc = "reset", !.loaded = 0]
  /\ UNCHANGED <<statbuf, config, g_premp_max, g_crit_max, heap, file, observed, reports,
                 ninstr, last, hist>>

\* perf_convert(g_premp_max[cpu], &maxtime)
LoadMax ==
  /\ rd.pc = "load"
  /\ rd' = [rd EXCEPT !.pc = "reset", !.loaded = StoredMax(rd.cpu, rd.kind)]
  /\ UNCHANGED <<statbuf, config, g_premp_max, g_crit_max, heap, file, observed, reports,
                 ninstr, last, hist>>

\* g_premp_max[cpu] = 0, g_crit_max[cpu] = 0
ClearMax ==
  /\ rd.pc = "reset"
  /\ \/ /\ rd.kind = "premp"
        /\ g_premp_max' = [g_premp_max EXCEPT ![rd.cpu] = 0]
        /\ UNCHANGED g_crit_max
     \/ /\ rd.kind = "crit"
        /\ g_crit_max' = [g_crit_max EXCEPT ![rd.cpu] = 0]
        /\ UNCHANGED g_premp_max
  /\ rd' = [rd EXCEPT !.pc = "emit"]
  /\ UNCHANGED <<statbuf, config, heap, file, observed, reports, ninstr, last, hist>>

\* procfs_snprintf(",%lu.%09lu") of maxtime and procfs_memcpy
WriteMax ==
  /\ rd.pc = "emit"
  /\ \E s \in {EmitField(rd.st, FmtDuration(MaxTime(rd.loaded)))} :
       rd' = [Moved(rd, s, rd.kind) EXCEPT !.loaded = 0]
  /\ hist' = [hist EXCEPT !.shown = @ \cup
                {[cpu |-> rd.cpu, kind |-> rd.kind, value |-> rd.loaded]}]
  /\ UNCHANGED <<statbuf, config, g_premp_max, g_crit_max, heap, file, observed, reports,
                 ninstr, last>>

WriteNewline ==
  /\ rd.pc = "newline"
  /\ \E s \in {EmitField(rd.st, FmtNewline)} :
       rd' = Moved(rd, s, "newline")
  /\ UNCHANGED <<statbuf, config, g_premp_max, g_crit_max, heap, file, observed, reports,
                 ninstr, last, hist>>

\* if (ret > 0) filep->f_pos += ret; return ret
ReadReturn ==
  /\ rd.pc = "return"
  /\ heap' = [heap EXCEPT ![file[rd.fd].f_priv].line = rd.st.line]
  /\ file' = [file EXCEPT ![rd.fd].f_pos = AdvancePos(@, Len(rd.st.bytes))]
  /\ last' = [op |-> "read", fd |-> rd.fd, arg |-> rd.arg, ret |-> Len(rd.st.bytes),
              pos |-> file[rd.fd].f_pos, bytes |-> rd.st.bytes, taken |-> {},
              resumed |-> NoPending, alloc |-> TRUE]
  /\ rd' = Idle
  /\ UNCHANGED <<statbuf, config, g_premp_max, g_crit_max, observed, reports, ninstr, hist>>

\* The instrumentation, on any CPU and at any point of a read, records an
\* elapsed time larger than the maximum.
StoreMax(cpu, kind, elapsed) ==
  /\ ninstr < MaxInstr
  /\ ninstr' = ninstr + 1
  /\ \/ /\ kind = "premp"
        /\ includePreemptMax
        /\ elapsed > g_premp_max[cpu]
        /\ g_premp_max' = [g_premp_max EXCEPT ![cpu] = elapsed]
        /\ UNCHANGED g_crit_max
     \/ /\ kind = "crit"
        /\ includeCritSectionMax
        /\ elapsed > g_crit_max[cpu]
        /\ g_crit_max' = [g_crit_max EXCEPT ![cpu] = elapsed]
        /\ UNCHANGED g_premp_max
  /\ hist' = [hist EXCEPT !.stores = @ \cup
                {[cpu |-> cpu, kind |-> kind, value |-> elapsed]}]
  /\ UNCHANGED <<statbuf, config, heap, file, observed, reports, last, rd>>

NextRace ==
  \/ \E buflen \in BufLens : ReadEnter(0, buflen)
  \/ WriteCpuId
  \/ TestMax
  \/ LoadMax
  \/ ClearMax
  \/ WriteMax
  \/ WriteNewline
  \/ ReadReturn
  \/ \E cpu \in Cpus, kind \in Kinds, elapsed \in Elevated : StoreMax(cpu, kind, elapsed)

SpecRace == InitRace /\ [][NextRace]_vars

(***************************************************************************)
(* C3. takeMax is an indivisible exchange: with the instrumentation        *)
(* storing maxima while critmon_read renders them, every value stored is   *)
(* rendered by a read, or is held by the read between its load and its     *)
(* rendering, or is still stored, or was superseded by a larger stored     *)
(* value of which one of these is true.                                    *)
(***************************************************************************)
Accounted(s) ==
  \/ s \in hist.shown
  \/ /\ rd.pc \in {"reset", "emit"}
     /\ rd.cpu = s.cpu /\ rd.kind = s.kind /\ rd.loaded = s.value
  \/ StoredMax(s.cpu, s.kind) >= s.value

C3_NoLostUpdate ==
  \A s \in hist.stores :
    \E t \in hist.stores :
      t.cpu = s.cpu /\ t.kind = s.kind /\ t.value >= s.value /\ Accounted(t)

(***************************************************************************)
(* C6. Just-in-time consumption: a read whose buffer fills in some field   *)
(* leaves the maxima of every later field of the document unchanged, and   *)
(* resets the maxima of the fields up to that one; a read that the         *)
(* document's end stops resets them all.                                   *)
(***************************************************************************)
StoredMaxNext(cpu, kind) == IF kind = "premp" THEN g_premp_max'[cpu] ELSE g_crit_max'[cpu]

C6_JustInTime ==
  [][(~stub /\ last'.op = "read") =>
       LET fields == FieldsFrom(0, g_premp_max, g_crit_max)
           full   == IF last'.ret = last'.arg
                     THEN FieldAt(fields, last'.pos + last'.ret - 1)
                     ELSE Len(fields)
       IN  \A i \in 1 .. Len(fields) :
             fields[i].kind \in Kinds =>
               StoredMaxNext(fields[i].cpu, fields[i].kind) =
                 IF i <= full THEN 0 ELSE StoredMax(fields[i].cpu, fields[i].kind)]_vars

\* A read took CPU 0's maxima, filled its buffer in CPU 1's pre-emption field
\* and left CPU 1's critical-section maximum stored.
C6_Witness ==
  /\ ~stub /\ last.op = "read" /\ last.ret = last.arg
  /\ \E e \in last.taken : e.cpu = 0 /\ e.kind = "crit" /\ e.had > 0
  /\ \E e \in last.taken : e.cpu = 1 /\ e.kind = "premp" /\ e.had > 0
  /\ g_crit_max[0] = 0 /\ g_premp_max[1] = 0 /\ g_crit_max[1] > 0

(***************************************************************************)
(* C7. Get-and-reset reports once: a rendered field's maximum is zero      *)
(* after the read, a field whose maximum is zero renders as 0.000000000,   *)
(* and with no store in between a stored value is shown by at most one     *)
(* rendering over all reads of all handles.                                *)
(***************************************************************************)
C7_ReportedOnce ==
  ~stub =>
    /\ \A c \in Cpus, k \in Kinds : reports[c][k] <= 1
    /\ last.op = "read" =>
         \A e \in last.taken :
           /\ StoredMax(e.cpu, e.kind) = 0
           /\ e.had = 0 => e.text = ZeroText

\* A field reported once before is rendered again, as zero, and delivered.
C7_Witness ==
  /\ ~stub /\ last.op = "read"
  /\ \E e \in last.taken :
       e.had = 0 /\ reports[e.cpu][e.kind] = 1 /\ e.text = ZeroText /\ e.copied # <<>>

(***************************************************************************)
(* C8. The partial-read defect: when a read stopped inside a duration      *)
(* field whose nonzero maximum it reset, the next read of the handle       *)
(* renders that field from zero, and the bytes it delivers for the field   *)
(* are bytes of the zero rendering; there is an execution in which they    *)
(* differ from the rest of the true value.                                *)
(***************************************************************************)
Resumes(e) ==
  /\ e.cpu = last.resumed.cpu /\ e.kind = last.resumed.kind
  /\ e.had = 0 /\ e.text = ZeroText
  /\ e.copied = SubSeq(ZeroText, e.skip + 1, e.skip + Len(e.copied))

C8_ZeroAfterPartial ==
  (~stub /\ last.op = "read" /\ last.resumed # NoPending) =>
    \E e \in last.taken : Resumes(e)

\* The bytes delivered for the field are not the rest of the true value.
C8_Witness ==
  /\ ~stub /\ last.op = "read" /\ last.resumed # NoPending
  /\ \E e \in last.taken :
       /\ Resumes(e)
       /\ e.copied # <<>>
       /\ e.copied # SubSeq(last.resumed.text, last.resumed.sent + 1,
                            Min(Len(last.resumed.text),
                                last.resumed.sent + Len(e.copied)))

(***************************************************************************)
(* C9. Dup continuity: with stubbed values, after a handle is duplicated   *)
(* at offset p, the bytes the duplicate delivers and the bytes the         *)
(* original delivers from then on are, in any interleaving of their reads, *)
(* the document's bytes from p on, and all of them up to the document's    *)
(* end once the handle's read returns 0.                                   *)
(***************************************************************************)
Rest(text, p) == SubSeq(text, p + 1, Len(text))

Continues(bytes, p, done) ==
  /\ Len(bytes) <= Len(SingleRead) - p
  /\ bytes = SubSeq(SingleRead, p + 1, p + Len(bytes))
  /\ done => bytes = Rest(SingleRead, p)

C9_DupContinuity ==
  stub =>
    \A d \in Fds :
      peer[d] # -1 =>
        /\ Continues(out[d], mark[d], AtEof(d))
        /\ Continues(Rest(out[peer[d]], mark[d] - mark[peer[d]]), mark[d],
                     AtEof(peer[d]))

\* A duplicate made inside the document reached the end after its original did.
C9_Witness ==
  /\ stub /\ AtEof(1) /\ peer[1] = 0
  /\ 0 < mark[1] /\ mark[1] < Len(SingleRead)
  /\ file[0].f_pos = file[1].f_pos
  /\ out[1] = Rest(SingleRead, mark[1])
  /\ out[0] = SingleRead

(***************************************************************************)
(* C10. Handle independence: an operation on one handle leaves every other *)
(* handle's offset, private pointer and scratch structure unchanged.       *)
(***************************************************************************)
C10_HandleIndependence ==
  [][\A fd \in Fds :
       (IsOpen(fd) /\ last'.fd # fd) =>
         /\ file'[fd] = file[fd]
         /\ heap'[file[fd].f_priv] = heap[file[fd].f_priv]]_vars

\* A read moved a duplicate on and left its original's offset and scratch alone.
C10_Witness ==
  /\ last.op = "read" /\ last.fd = 1 /\ last.ret > 0
  /\ IsOpen(0) /\ IsOpen(1)
  /\ file[0].f_priv # file[1].f_priv
  /\ file[0].f_pos < file[1].f_pos
  /\ heap[file[0].f_priv].line # heap[file[1].f_priv].line

(***************************************************************************)
(* C11. Document content: a read at offset 0 into a buffer that holds the  *)
(* document returns one record per CPU in ascending order: the CPU index,  *)
(* ",seconds.nanoseconds" with nine digits of nanoseconds for each enabled *)
(* column, pre-emption first, nothing for a disabled column, a newline;    *)
(* a zero maximum reads 0.000000000; nothing comes before or after.        *)
(***************************************************************************)
DurationText(v) ==
  CASE v = 0          -> <<",", "0", ".", "0", "0", "0", "0", "0", "0", "0", "0", "0">>
    [] v = 123456789  -> <<",", "1", ".", "2", "3", "4", "5", "6", "7", "8", "9", "0">>
    [] v = 1234567890 -> <<",", "1", "2", ".", "3", "4", "5", "6", "7", "8", "9", "0", "0">>

RecordText(cpu, premp, crit) ==
  <<DigitChars[cpu + 1]>>
  \o (IF includePreemptMax THEN DurationText(premp[cpu]) ELSE <<>>)
  \o (IF includeCritSectionMax THEN DurationText(crit[cpu]) ELSE <<>>)
  \o <<"\n">>

RECURSIVE Layout(_, _, _)
Layout(cpu, premp, crit) ==
  IF cpu >= NCPUS THEN <<>>
  ELSE RecordText(cpu, premp, crit) \o Layout(cpu + 1, premp, crit)

C11_DocumentContent ==
  [][(/\ last'.op = "read"
      /\ last'.pos = 0
      /\ last'.arg >= Len(Layout(0, g_premp_max, g_crit_max)))
     => /\ last'.bytes = Layout(0, g_premp_max, g_crit_max)
        /\ last'.ret = Len(last'.bytes)
        /\ IsDocument(last'.bytes)]_vars

\* Both columns, a two-digit-seconds maximum and a zero maximum in one read.
C11_Witness ==
  /\ ~stub /\ last.op = "read" /\ last.pos = 0 /\ last.arg = BigBuf
  /\ includePreemptMax /\ includeCritSectionMax
  /\ \E e \in last.taken : e.cpu = 0 /\ e.kind = "crit" /\ e.had = 1234567890
  /\ \E e \in last.taken : e.cpu = 1 /\ e.kind = "premp" /\ e.had = 0
  /\ Cardinality(last.taken) = 2 * NCPUS
  /\ last.ret = Len(last.bytes) /\ last.ret < last.arg
  /\ IsDocument(last.bytes)

(***************************************************************************)
(* C12. Open rejection: critmon_open returns OK only for flags with read   *)
(* access and no write access; flags with write access and flags without   *)
(* read access get -EACCES, and then no handle is allocated and no file's  *)
(* private pointer changes.                                                *)
(***************************************************************************)
ReadOnly(oflags) == oflags \in {O_RDONLY}

C12_OpenRejection ==
  [][last'.op = "open" =>
       /\ last'.ret = OK => ReadOnly(last'.arg)
       /\ ~ReadOnly(last'.arg) =>
            /\ last'.ret = -EACCES
            /\ heap' = heap
            /\ file' = file]_vars

\* While file 0 is open, an open for reading and writing was refused.
C12_Witness ==
  /\ last.op = "open" /\ last.arg = O_RDONLY + O_WRONLY /\ last.ret = -EACCES
  /\ last.fd = 1 /\ IsOpen(0) /\ ~IsOpen(1)
  /\ FreeAddrs = Addrs \ {file[0].f_priv}

(***************************************************************************)
(* C13. Out of memory is side-effect free: when the allocation fails,      *)
(* critmon_open and critmon_dup return -ENOMEM, the new file gets no       *)
(* handle, and every existing handle, the duplicated one included, keeps   *)
(* its offset, its scratch structure and its validity.                     *)
(***************************************************************************)
C13_NoMemNoEffect ==
  [][(last'.op \in {"open", "dup"} /\ ~last'.alloc) =>
       /\ last'.ret = -ENOMEM
       /\ file'[last'.fd].f_priv = NULL
       /\ heap' = heap
       /\ file' = file
       /\ \A fd \in Fds : IsOpen(fd) => heap'[file'[fd].f_priv] = heap[file[fd].f_priv]]_vars

\* A dup of file 0, which has read part of the document, failed for lack of memory.
C13_Witness ==
  /\ last.op = "dup" /\ last.ret = -ENOMEM /\ ~last.alloc
  /\ last.arg = 0 /\ last.fd = 1
  /\ IsOpen(0) /\ ~IsOpen(1)
  /\ file[0].f_pos > 0
  /\ heap[file[0].f_priv].free = FALSE

(***************************************************************************)
(* C14. Handle lifecycle accounting: every open file owns a live           *)
(* allocation, no allocation belongs to two files, there are as many live  *)
(* allocations as open files, and a close leaves the file without a handle *)
(* and its allocation freed.                                               *)
(***************************************************************************)
OpenFds == {fd \in Fds : IsOpen(fd)}

LiveAddrs == Addrs \ FreeAddrs

C14_LifecycleAccounting ==
  /\ \A fd \in OpenFds : file[fd].f_priv \in LiveAddrs
  /\ \A fd \in OpenFds, other \in OpenFds : fd # other => file[fd].f_priv # file[other].f_priv
  /\ Cardinality(LiveAddrs) = Cardinality(OpenFds)
  /\ last.op = "close" => file[last.fd].f_priv = NULL

\* The original of a duplicate was closed: the duplicate's copy alone is live.
C14_Witness ==
  /\ last.op = "close" /\ last.fd = 0
  /\ OpenFds = {1}
  /\ LiveAddrs = {file[1].f_priv}
  /\ file[1].f_pos > 0

(***************************************************************************)
(* C16. A successful critmon_open yields a fresh handle: offset 0,         *)
(* linesize 0 and a line of zero bytes; the first read of the handle       *)
(* starts at byte 0 of the document whatever other handles have read.      *)
(***************************************************************************)
C16_FreshHandle ==
  [][/\ (last'.op = "open" /\ last'.ret = OK) =>
          /\ file'[last'.fd].f_pos = 0
          /\ heap'[file'[last'.fd].f_priv].linesize = 0
          /\ \A i \in 1 .. CRITMON_LINELEN : heap'[file'[last'.fd].f_priv].line[i] = NUL
     /\ (last.op = "open" /\ last.ret = OK /\ last'.op = "read" /\ last'.fd = last.fd) =>
          /\ last'.pos = 0
          /\ last'.bytes = SubSeq(Layout(0, g_premp_max, g_crit_max), 1, last'.ret)]_vars

\* File 0 has read the whole document and zeroed the maxima; file 1, opened
\* after that, reads from byte 0.
C16_Witness ==
  /\ ~stub /\ last.op = "read" /\ last.fd = 1 /\ last.pos = 0 /\ last.ret > 0
  /\ quiet[1] /\ chunks[1] = 1 /\ out[1] = last.bytes
  /\ IsOpen(0) /\ file[0].f_pos > last.ret
  /\ \E e \in last.taken : e.had = 0 /\ e.copied # <<>>

(***************************************************************************)
(* C15. critmon_stat succeeds for any path and reports a regular file      *)
(* that owner, group and other can read, with no write bit, no execute     *)
(* bit and no directory bit, and every other attribute zero.               *)
(***************************************************************************)
C15_Stat ==
  last.op = "stat" =>
    /\ last.ret = OK
    /\ (statbuf.st_mode \div 4096) * 4096 = S_IFREG
    /\ \A bit \in ModeBits :
         HasBit(statbuf.st_mode, bit) <=> bit \in {S_IRUSR, S_IRGRP, S_IROTH}
    /\ ~HasBit(statbuf.st_mode, S_IFDIR)
    /\ \A f \in DOMAIN statbuf \ {"st_mode"} : statbuf[f] = 0

\* stat of a path below the node while a file is open.
C15_Witness ==
  /\ last.op = "stat" /\ last.bytes = <<"critmon/0">>
  /\ IsOpen(0)
  /\ statbuf.st_mode = 33060
  /\ statbuf.st_size = 0

(***************************************************************************)
(* C17. Re-rendering before the offset: a read renders and resets the      *)
(* maximum of every duration field that lies entirely before its starting  *)
(* offset, delivering no byte of it; a read at or past the document's end  *)
(* returns 0, leaves the offset where it was and resets every enabled      *)
(* maximum without delivering any.                                         *)
(***************************************************************************)
\* The bytes of the document before field i.
RECURSIVE StartOf(_, _)
StartOf(fields, i) ==
  IF i <= 1 THEN 0 ELSE StartOf(fields, i - 1) + Len(fields[i - 1].text)

C17_RenderedBeforeOffset ==
  [][(~stub /\ last'.op = "read") =>
       LET fields == FieldsFrom(0, g_premp_max, g_crit_max)
           full   == IF last'.ret = last'.arg
                     THEN FieldAt(fields, last'.pos + last'.ret - 1)
                     ELSE Len(fields)
       IN  /\ \A i \in 1 .. full :
                fields[i].kind \in Kinds =>
                  /\ StoredMaxNext(fields[i].cpu, fields[i].kind) = 0
                  /\ \E e \in last'.taken :
                       /\ e.cpu = fields[i].cpu /\ e.kind = fields[i].kind
                       /\ e.had = StoredMax(fields[i].cpu, fields[i].kind)
                       /\ e.text = fields[i].text
                       /\ StartOf(fields, i) + Len(fields[i].text) <= last'.pos
                            => e.copied = <<>>
           /\ last'.pos >= StartOf(fields, Len(fields) + 1) =>
                /\ last'.ret = 0 /\ last'.bytes = <<>>
                /\ file'[last'.fd].f_pos = last'.pos
                /\ g_premp_max' = [c \in Cpus |-> 0]
                /\ g_crit_max' = [c \in Cpus |-> 0]]_vars

\* A read at the document's end returned nothing and erased a stored maximum.
C17_Witness ==
  /\ ~stub /\ last.op = "read" /\ last.ret = 0 /\ last.pos > 0
  /\ file[last.fd].f_pos = last.pos
  /\ \E e \in last.taken : e.had = 1234567890 /\ e.copied = <<>>
  /\ \A c \in Cpus : g_premp_max[c] = 0 /\ g_crit_max[c] = 0

(***************************************************************************)
(* A client that keeps reading one handle while the instrumentation        *)
(* stores maxima at any point of its calls.  The thread in critmon_read    *)
(* is scheduled again and the client's next call always comes: weak        *)
(* fairness of each of the reader's steps.  A formatting step (WriteCpuId, *)
(* WriteMax, WriteNewline) is enabled exactly while rd.pc names it and no  *)
(* other step changes rd.pc, so its weak fairness is that rd.pc does not   *)
(* stay at it for ever (NotStuckAt).                                       *)
(***************************************************************************)
ReaderStep ==
  \/ \E buflen \in BufLens : ReadEnter(0, buflen)
  \/ TestMax
  \/ LoadMax
  \/ ClearMax
  \/ ReadReturn

NotStuckAt(pc) == []<>(rd.pc # pc)

SpecLive ==
  /\ InitRace
  /\ [][NextRace]_vars
  /\ WF_vars(ReaderStep)
  /\ NotStuckAt("cpuid")
  /\ NotStuckAt("emit")
  /\ NotStuckAt("newline")

(***************************************************************************)
(* C18. Read-loop termination: a client that keeps calling critmon_read    *)
(* on one handle, with any buffer sizes and with the instrumentation       *)
(* storing maxima between the calls, eventually gets a zero-length result. *)
(***************************************************************************)
C18_ReadsTerminate == <>AtEof(0)

\* The zero-length result came after a store had made the document longer
\* than it was when the client started.
C18_Witness ==
  /\ AtEof(0) /\ ninstr > 0
  /\ last.pos > Len(Document([c \in Cpus |-> 0], [c \in Cpus |-> 0]))
  /\ file[0].f_pos = last.pos

(***************************************************************************)
(* A read on a handle whose scratch buffer holds anything: zeroes, bytes   *)
(* that are not text, or the field an earlier read rendered last; and on   *)
(* the duplicate critmon_dup makes of it, which gets the same bytes.       *)
(***************************************************************************)
GarbageLine == [i \in 1 .. CRITMON_LINELEN |-> "9"]

UsedLine == procfs_snprintf(ZeroLine, CRITMON_LINELEN,
                            FmtDuration(perf_convert(1234567890))).line

ScratchLines == {ZeroLine, GarbageLine, UsedLine}

ScratchSizes == {0, CRITMON_LINELEN}

InitScratch ==
  /\ includePreemptMax \in BOOLEAN
  /\ includeCritSectionMax \in BOOLEAN
  /\ includePreemptMax \/ includeCritSectionMax
  /\ stub \in BOOLEAN
  /\ g_premp_max = StoredPremp
  /\ g_crit_max = StoredCrit
  /\ \E line \in ScratchLines, linesize \in ScratchSizes :
       heap = [a \in Addrs |->
                 IF a = 1 THEN [free |-> FALSE, linesize |-> linesize, line |-> line]
                 ELSE Free]
  /\ \E pos \in 0 .. MaxDocLen :
       file = [fd \in Fds |-> IF fd = 0 THEN [f_priv |-> 1, f_pos |-> pos]
                                        ELSE [f_priv |-> NULL, f_pos |-> 0]]
  /\ out = [fd \in Fds |-> <<>>]
  /\ mark = [fd \in Fds |-> 0]
  /\ peer = [fd \in Fds |-> -1]
  /\ quiet = [fd \in Fds |-> FALSE]
  /\ chunks = [fd \in Fds |-> 0]
  /\ pending = [fd \in Fds |-> NoPending]
  /\ reports = [c \in Cpus |-> [k \in Kinds |-> 0]]
  /\ ninstr = 0
  /\ last = NoOp
  /\ rd = Idle
  /\ hist = NoHist
  /\ statbuf = StaleStat

NextScratch ==
  \/ \E fd \in Fds, buflen \in CallBufLens : last.op # "read" /\ Read(fd, buflen)
  \/ \E allocOK \in BOOLEAN : last.op = "none" /\ Dup(0, 1, allocOK)

SpecScratch == InitScratch /\ [][NextScratch]_vars

(***************************************************************************)
(* C19. The scratch buffer carries nothing from call to call: whatever     *)
(* line and linesize the handle holds, a read returns the bytes and the    *)
(* count, and leaves the offset and the maxima, that a read at the same    *)
(* offset with the same buffer size over the same maxima returns on a      *)
(* handle whose scratch buffer is zero.                                    *)
(***************************************************************************)
C19_ScratchCarriesNothing ==
  [][last'.op = "read" =>
       \E ref \in {critmon_read(ZeroLine, last'.pos, last'.arg,
                                 g_premp_max, g_crit_max)} :
         /\ last'.ret = ref.ret
         /\ last'.bytes = ref.bytes
         /\ file'[last'.fd].f_pos = ref.f_pos
         /\ g_premp_max' = ref.premp
         /\ g_crit_max' = ref.crit
         /\ heap'[file[last'.fd].f_priv].linesize = heap[file[last'.fd].f_priv].linesize]_vars

\* The duplicate of a handle whose scratch buffer held bytes that are not
\* text and a non-zero linesize returned bytes from inside the document.
C19_Witness ==
  /\ last.op = "read" /\ last.fd = 1 /\ last.ret > 0 /\ last.pos > 0
  /\ heap[file[1].f_priv].linesize = CRITMON_LINELEN
  /\ heap[file[1].f_priv].line[CRITMON_LINELEN] = "9"

=============================================================================
